---- MODULE Spec2Model ----
(***************************************************************************)
(* Model of pycfml/cfml.py: the CustomFormatDB store (self.blocks), its    *)
(* parser (load), its serializer (dumps) and its mutation operations.      *)
(* A Python str is modelled as a sequence of one-character strings, so     *)
(* that dumps really renders characters and load really matches them.      *)
(***************************************************************************)
EXTENDS Integers, Sequences, FiniteSets, TLC

VARIABLES blocks, last, old

vars == <<blocks, last, old>>

(* ------------------------------ bounds --------------------------------- *)
MaxLines == 4
MaxMsgs == 2
MaxUpdates == 2

(* --------------------------- character level --------------------------- *)
Digits == {"0", "1", "2", "3", "4", "5", "6", "7", "8", "9"}

Whitespace == {" ", "\t", "\n", "\r"}

LineBreaks == {"\n", "\r"}

HEADER_PREFIX == <<"#", "$", "*", " ", "d", "a", "t", "e", " ", "-", "*", " ">>

HEADER_CLOSE == <<" ", "*", "-">>

HEADER_TAIL == <<"#", "$", "*">>

MSG_OPEN == <<"@", "#", " ">>

MSG_TIME_END == <<" ", "#", "@", " ", "$", "#", " ">>

MSG_RECEIVER_END == <<" ", "#", "$", " ", "*", "#", " ">>

MSG_SENDER_END == <<" ", "#", "*", " ", "c", "o", "n", "t", "e", "n", "t", " ",
                    "-", "*", "&", "^", "#", " ">>

MSG_CONTENT_END == <<" ", "#", "^", "&", "*", "-">>

END_LINE == <<"*", "$", "#", " ", "e", "n", "d", " ", "*", "$", "#">>

MessageFields == <<"time", "receiver", "sender", "content">>

Drop(s, n) == SubSeq(s, n + 1, Len(s))

HasAt(s, i, lit) == /\ i >= 1
                    /\ i + Len(lit) - 1 <= Len(s)
                    /\ SubSeq(s, i, i + Len(lit) - 1) = lit

NoNewline(s) == \A i \in 1..Len(s) : s[i] # "\n"

(* str.splitlines(): a line ends at "\n", "\r" or "\r\n"; the text after   *)
(* the last line break is a line only when it is not empty.                *)
RECURSIVE SplitLines(_)
SplitLines(s) ==
    IF s = <<>> THEN <<>>
    ELSE LET brk == {i \in 1..Len(s) : s[i] \in LineBreaks}
         IN IF brk = {} THEN <<s>>
            ELSE LET i == CHOOSE k \in brk : \A m \in brk : k <= m
                     skip == IF s[i] = "\r" /\ i < Len(s) /\ s[i + 1] = "\n"
                             THEN 2 ELSE 1
                 IN <<SubSeq(s, 1, i - 1)>> \o SplitLines(Drop(s, i - 1 + skip))

(* str.strip() *)
Strip(s) ==
    LET keep == {i \in 1..Len(s) : s[i] \notin Whitespace}
    IN IF keep = {} THEN <<>>
       ELSE SubSeq(s, CHOOSE k \in keep : \A m \in keep : k <= m,
                      CHOOSE k \in keep : \A m \in keep : k >= m)

(* [line.strip() for line in text.splitlines() if line.strip()] *)
StrippedLines(text) ==
    LET raw == SplitLines(text)
    IN SelectSeq([i \in 1..Len(raw) |-> Strip(raw[i])], LAMBDA l : l # <<>>)

(* HEADER_RE: the prefix, a lazy date, " *-", one whitespace, "#$*", end.  *)
(* The pattern is anchored at both ends and its tail has a fixed length,   *)
(* so the date is whatever lies between the prefix and the last 7 chars.   *)
HEADER_RE(line) ==
    LET n == Len(line)
    IN /\ n >= Len(HEADER_PREFIX) + 7
       /\ HasAt(line, 1, HEADER_PREFIX)
       /\ HasAt(line, n - 6, HEADER_CLOSE)
       /\ line[n - 3] \in Whitespace
       /\ HasAt(line, n - 2, HEADER_TAIL)
       /\ NoNewline(SubSeq(line, Len(HEADER_PREFIX) + 1, n - 7))

HeaderDate(line) == SubSeq(line, Len(HEADER_PREFIX) + 1, Len(line) - 7)

(* \d{2}:\d{2}:\d{2} at position i *)
TimeAt(line, i) ==
    /\ i + 7 <= Len(line)
    /\ \A k \in {0, 1, 3, 4, 6, 7} : line[i + k] \in Digits
    /\ line[i + 2] = ":"
    /\ line[i + 5] = ":"

(* MESSAGE_RE: the ways the three lazy groups can be cut. <<i, j>> is the  *)
(* last index of receiver and of sender; content runs to the end token.    *)
MessageCuts(line) ==
    LET n == Len(line)
        r0 == Len(MSG_OPEN) + 8 + Len(MSG_TIME_END) + 1
    IN IF ~ (/\ HasAt(line, 1, MSG_OPEN)
             /\ TimeAt(line, Len(MSG_OPEN) + 1)
             /\ HasAt(line, Len(MSG_OPEN) + 9, MSG_TIME_END)
             /\ HasAt(line, n - Len(MSG_CONTENT_END) + 1, MSG_CONTENT_END))
       THEN {}
       ELSE LET rEnds == {i \in r0..n : HasAt(line, i + 1, MSG_RECEIVER_END)}
                sEnds == {j \in r0..n : HasAt(line, j + 1, MSG_SENDER_END)}
            IN {c \in rEnds \X sEnds :
                  /\ c[2] >= c[1] + Len(MSG_RECEIVER_END) + 1
                  /\ n - Len(MSG_CONTENT_END) >= c[2] + Len(MSG_SENDER_END) + 1
                  /\ NoNewline(SubSeq(line, r0, n))}

MESSAGE_RE(line) == MessageCuts(line) # {}

(* Lazy groups: the regex engine takes the shortest receiver that lets the *)
(* rest match, then the shortest sender.                                   *)
LazyCut(cuts) ==
    CHOOSE c \in cuts : \A d \in cuts :
        \/ c[1] < d[1]
        \/ (c[1] = d[1] /\ c[2] <= d[2])

MessageGroups(line) ==
    LET c == LazyCut(MessageCuts(line))
        n == Len(line)
        r0 == Len(MSG_OPEN) + 8 + Len(MSG_TIME_END) + 1
    IN [time     |-> SubSeq(line, Len(MSG_OPEN) + 1, Len(MSG_OPEN) + 8),
        receiver |-> SubSeq(line, r0, c[1]),
        sender   |-> SubSeq(line, c[1] + Len(MSG_RECEIVER_END) + 1, c[2]),
        content  |-> SubSeq(line, c[2] + Len(MSG_SENDER_END) + 1,
                                  n - Len(MSG_CONTENT_END))]

END_RE(line) == line = END_LINE

(* ------------------------------- load ---------------------------------- *)
(* current_date = None; a date is a sequence of one-character strings, so  *)
(* this value differs from every date, the empty one included.             *)
None == <<"None">>

(* `if current_date:` in place of the test against None *)
IsOpenTruthy(current_date) == current_date # None /\ current_date # <<>>

(* `current_date is not None` *)
IsOpen(current_date) == current_date # None

Message(time, receiver, sender, content) ==
    [time |-> time, receiver |-> receiver, sender |-> sender, content |-> content]

Block(date, messages) == [date |-> date, messages |-> messages]

(* `if not msg.group(key)` for the four groups *)
MissingField(groups) ==
    \E k \in 1..Len(MessageFields) : groups[MessageFields[k]] = <<>>

(* The for loop of load from line i on. acc is self.blocks, which load     *)
(* appends to while it scans, so a raise leaves in it the blocks closed    *)
(* before the offending line.                                              *)
(* The loop's result with the check after the loop left out *)
EndOfInputUnchecked(current_date, acc) ==
    [ok |-> TRUE, err |-> "", blocks |-> acc]

(* After the loop: `if current_date is not None: raise` *)
EndOfInput(current_date, acc) ==
    IF IsOpen(current_date)
    THEN [ok |-> FALSE, err |-> "unterminated", blocks |-> acc]
    ELSE [ok |-> TRUE, err |-> "", blocks |-> acc]

RECURSIVE LoadLoop(_, _, _, _, _)
LoadLoop(lines, i, current_date, current_messages, acc) ==
    IF i > Len(lines)
    THEN EndOfInput(current_date, acc)
    ELSE LET line == lines[i]
         IN IF HEADER_RE(line)
            THEN IF IsOpen(current_date)
                 THEN [ok |-> FALSE, err |-> "nested", blocks |-> acc]
                 ELSE LoadLoop(lines, i + 1, HeaderDate(line), <<>>, acc)
            ELSE IF MESSAGE_RE(line)
            THEN IF ~ IsOpen(current_date)
                 THEN [ok |-> FALSE, err |-> "orphan", blocks |-> acc]
                 ELSE IF MissingField(MessageGroups(line))
                 THEN [ok |-> FALSE, err |-> "field", blocks |-> acc]
                 ELSE LET g == MessageGroups(line)
                      IN LoadLoop(lines, i + 1, current_date,
                                  Append(current_messages,
                                         Message(g.time, g.receiver, g.sender, g.content)),
                                  acc)
            ELSE IF END_RE(line)
            THEN IF ~ IsOpen(current_date)
                 THEN [ok |-> FALSE, err |-> "stray_end", blocks |-> acc]
                 ELSE LoadLoop(lines, i + 1, None, <<>>,
                               Append(acc, Block(current_date, current_messages)))
            ELSE [ok |-> FALSE, err |-> "invalid", blocks |-> acc]

(* self.blocks left as it was *)
ClearNothing(bs) == bs

(* self.blocks.clear() *)
Clear(bs) == <<>>

(* db.load(text) on a store holding bs *)
LoadInto(bs, text) == LoadLoop(StrippedLines(text), 1, None, <<>>, Clear(bs))

(* load(text) as a function of the text: self.blocks.clear(), then the     *)
(* scan. ok is FALSE when load raises FormatError; blocks is self.blocks   *)
(* when load returns or raises.                                            *)
load(text) == LoadInto(<<>>, text)

(* ------------------------------- dumps --------------------------------- *)
RECURSIVE Join(_, _)
Join(lines, sep) ==
    IF lines = <<>> THEN <<>>
    ELSE IF Len(lines) = 1 THEN lines[1]
    ELSE lines[1] \o sep \o Join(Tail(lines), sep)

(* The header rendered without the blank between "*-" and "#$*" *)
HeaderLineTight(date) ==
    HEADER_PREFIX \o date \o HEADER_CLOSE \o HEADER_TAIL

HeaderLine(date) ==
    HEADER_PREFIX \o date \o HEADER_CLOSE \o <<" ">> \o HEADER_TAIL

MessageLine(msg) ==
    MSG_OPEN \o msg.time \o MSG_TIME_END \o msg.receiver \o MSG_RECEIVER_END
             \o msg.sender \o MSG_SENDER_END \o msg.content \o MSG_CONTENT_END

BlockLines(block) ==
    <<HeaderLine(block.date)>>
        \o [k \in 1..Len(block.messages) |-> MessageLine(block.messages[k])]
        \o <<END_LINE>>

RECURSIVE OutputLines(_)
OutputLines(bs) ==
    IF bs = <<>> THEN <<>> ELSE BlockLines(bs[1]) \o OutputLines(Tail(bs))

dumps(bs) == Join(OutputLines(bs), <<"\n">>)

(* --------------------------- data management --------------------------- *)
(* The loop keeping the last block with that date instead of returning at  *)
(* the first one.                                                          *)
LastWithDate(bs, date) ==
    LET hits == {i \in 1..Len(bs) : bs[i].date = date}
    IN IF hits = {} THEN 0 ELSE CHOOSE i \in hits : \A j \in hits : i >= j

(* `for block in self.blocks: if block["date"] == date`: the position of   *)
(* the first block with that date, 0 when the loop finds none.             *)
FirstWithDate(bs, date) ==
    LET hits == {i \in 1..Len(bs) : bs[i].date = date}
    IN IF hits = {} THEN 0 ELSE CHOOSE i \in hits : \A j \in hits : i <= j

(* The check applied to the date alone *)
MissingDate(date, msg) == date = <<>>

(* `if not value` over date, time, receiver, sender, content *)
MissingRequired(date, msg) ==
    \/ date = <<>>
    \/ \E k \in 1..Len(MessageFields) : msg[MessageFields[k]] = <<>>

add_message(bs, date, msg) ==
    IF MissingRequired(date, msg)
    THEN [ok |-> FALSE, blocks |-> bs]
    ELSE LET b == FirstWithDate(bs, date)
         IN IF b # 0
            THEN [ok |-> TRUE,
                  blocks |-> [bs EXCEPT ![b].messages = Append(@, msg)]]
            ELSE [ok |-> TRUE, blocks |-> Append(bs, Block(date, <<msg>>))]

(* list.remove-like deletion: only the first block with that date goes *)
delete_first_date(bs, date) ==
    LET hits == {i \in 1..Len(bs) : bs[i].date = date}
    IN IF hits = {} THEN [ok |-> TRUE, blocks |-> bs]
       ELSE LET f == CHOOSE i \in hits : \A j \in hits : i <= j
            IN [ok |-> TRUE,
                blocks |-> SubSeq(bs, 1, f - 1) \o SubSeq(bs, f + 1, Len(bs))]

delete_date(bs, date) ==
    [ok |-> TRUE, blocks |-> SelectSeq(bs, LAMBDA b : b.date # date)]

(* `index < len(block["messages"])`, without the lower bound *)
IndexBelowLen(index, n) == index < n

(* `0 <= index < len(block["messages"])` *)
ValidIndex(index, n) == 0 <= index /\ index < n

(* list[index] position, 1-based; Python counts a negative index from the  *)
(* end of the list.                                                        *)
Position(index, n) == IF index < 0 THEN n + index + 1 ELSE index + 1

(* list.pop() with the index left out: the last element goes *)
PopLast(list, index) == SubSeq(list, 1, Len(list) - 1)

(* list.pop(index) *)
Pop(list, index) ==
    LET p == Position(index, Len(list))
    IN SubSeq(list, 1, p - 1) \o SubSeq(list, p + 1, Len(list))

(* A variant that drops the block once its last message is gone *)
delete_message_pruning(bs, date, index) ==
    LET b == FirstWithDate(bs, date)
    IN IF b = 0
       THEN [ok |-> FALSE, blocks |-> bs]
       ELSE IF ValidIndex(index, Len(bs[b].messages))
       THEN IF Len(bs[b].messages) = 1
            THEN [ok |-> TRUE,
                  blocks |-> SubSeq(bs, 1, b - 1) \o SubSeq(bs, b + 1, Len(bs))]
            ELSE [ok |-> TRUE,
                  blocks |-> [bs EXCEPT ![b].messages = Pop(@, index)]]
       ELSE [ok |-> FALSE, blocks |-> bs]

delete_message(bs, date, index) ==
    LET b == FirstWithDate(bs, date)
    IN IF b = 0
       THEN [ok |-> FALSE, blocks |-> bs]
       ELSE IF ValidIndex(index, Len(bs[b].messages))
       THEN [ok |-> TRUE, blocks |-> [bs EXCEPT ![b].messages = Pop(@, index)]]
       ELSE [ok |-> FALSE, blocks |-> bs]

(* A variant that checks every item before it overwrites any field *)
ApplyUpdatesAtomic(msg, updates, k) ==
    LET rest == k..Len(updates)
        bad(j) == \/ \A f \in 1..Len(MessageFields) :
                        MessageFields[f] # updates[j][1]
                  \/ updates[j][2] = <<>>
    IN IF \E j \in rest : bad(j)
       THEN [ok |-> FALSE, msg |-> msg]
       ELSE [ok |-> TRUE,
             msg |-> [f \in DOMAIN msg |->
                        IF \E j \in rest : updates[j][1] = f
                        THEN updates[CHOOSE j \in rest : updates[j][1] = f][2]
                        ELSE msg[f]]]

(* `for key in updates`: updates is the dict as its sequence of            *)
(* <<key, value>> items in insertion order. The message is overwritten     *)
(* field by field, so a raise at item k keeps the items before k.          *)
RECURSIVE ApplyUpdates(_, _, _)
ApplyUpdates(msg, updates, k) ==
    IF k > Len(updates)
    THEN [ok |-> TRUE, msg |-> msg]
    ELSE LET key == updates[k][1]
             value == updates[k][2]
         IN IF \A f \in 1..Len(MessageFields) : MessageFields[f] # key
            THEN [ok |-> FALSE, msg |-> msg]
            ELSE IF value = <<>>
            THEN [ok |-> FALSE, msg |-> msg]
            ELSE ApplyUpdates([msg EXCEPT ![key] = value], updates, k + 1)

edit_message(bs, date, index, updates) ==
    LET b == FirstWithDate(bs, date)
    IN IF b = 0
       THEN [ok |-> FALSE, blocks |-> bs]
       ELSE IF ValidIndex(index, Len(bs[b].messages))
       THEN LET p == Position(index, Len(bs[b].messages))
                r == ApplyUpdates(bs[b].messages[p], updates, 1)
            IN [ok |-> r.ok, blocks |-> [bs EXCEPT ![b].messages[p] = r.msg]]
       ELSE [ok |-> FALSE, blocks |-> bs]

list_dates(bs) == [i \in 1..Len(bs) |-> bs[i].date]

list_messages(bs, date) ==
    LET b == FirstWithDate(bs, date)
    IN IF b = 0
       THEN [ok |-> FALSE, result |-> <<>>]
       ELSE [ok |-> TRUE, result |-> bs[b].messages]

(* `if sender`, `if receiver`, `if text`: an argument that is None or the  *)
(* empty string is falsy.                                                  *)
Truthy(value) == value # None /\ value # <<>>

(* `text in msg["content"]` *)
Contains(s, sub) ==
    \E i \in 1..(Len(s) - Len(sub) + 1) : HasAt(s, i, sub)

(* The three `continue` tests of search_messages *)
Skipped(msg, sender, receiver, text) ==
    \/ Truthy(sender) /\ msg.sender # sender
    \/ Truthy(receiver) /\ msg.receiver # receiver
    \/ Truthy(text) /\ ~ Contains(msg.content, text)

(* {"date": block["date"], **msg} *)
Found(date, msg) ==
    [date |-> date, time |-> msg.time, receiver |-> msg.receiver,
     sender |-> msg.sender, content |-> msg.content]

RECURSIVE search_messages(_, _, _, _)
search_messages(bs, sender, receiver, text) ==
    IF bs = <<>> THEN <<>>
    ELSE LET kept == SelectSeq(bs[1].messages,
                               LAMBDA m : ~ Skipped(m, sender, receiver, text))
         IN [k \in 1..Len(kept) |-> Found(bs[1].date, kept[k])]
                \o search_messages(Tail(bs), sender, receiver, text)

(* ------------------------------- inputs -------------------------------- *)
D1 == <<"d">>

D2 == <<"e">>

T1 == <<"0", "9", ":", "0", "0", ":", "0", "0">>

Dates == {D1, D2, <<>>}

Times == {T1, <<"x">>, <<>>}

Receivers == {<<"B">>, <<>>}

Senders == {<<"A">>, <<>>}

Contents == {<<"h", "i">>, <<>>}

(* Arguments of add_message: all non-empty, or exactly one of them empty.  *)
AddInputs ==
    {a \in Dates \X Times \X Receivers \X Senders \X Contents :
        Cardinality({k \in 1..5 : a[k] = <<>>}) <= 1}

(* Dates named by delete_message and edit_message *)
BlockDates == {D1, D2}

Indices == -1..MaxMsgs

(* Items of an updates dict: a new value for a recognised field, an empty  *)
(* value for a recognised field, a key that is not a field.                *)
EditItems == {<<"time", <<"x">>>>, <<"content", <<>>>>, <<"date", <<"z">>>>}

Updates ==
    {u \in UNION {[1..n -> EditItems] : n \in 0..MaxUpdates} :
        \A i, j \in 1..Len(u) : i # j => u[i][1] # u[j][1]}

(* Filters of search_messages: None is an omitted argument *)
SenderFilters == {None, <<"A">>, <<>>}

ReceiverFilters == {None, <<"B">>}

TextFilters == {None, <<"i">>}

(* Updates of at most one item *)
ShortUpdates == {u \in Updates : Len(u) <= 1}

(* Pieces of input text: a canonical header; a header with an empty date,  *)
(* leading blank, a tab before the tail and a trailing "\r"; a message     *)
(* line after a blank line, indented, whose receiver part contains the     *)
(* receiver end token; the end marker; a message line with a bad time.     *)
Pieces ==
    { HEADER_PREFIX \o D1 \o HEADER_CLOSE \o <<" ">> \o HEADER_TAIL,
      <<" ">> \o HEADER_PREFIX \o HEADER_CLOSE \o <<"\t">> \o HEADER_TAIL \o <<"\r">>,
      <<"\n", "\t">> \o MSG_OPEN \o T1 \o MSG_TIME_END
          \o <<"a">> \o MSG_RECEIVER_END \o <<"b">> \o MSG_RECEIVER_END
          \o <<"A">> \o MSG_SENDER_END \o <<"h">> \o MSG_CONTENT_END,
      END_LINE,
      MSG_OPEN \o <<"x">> \o MSG_TIME_END \o <<"B">> \o MSG_RECEIVER_END
          \o <<"A">> \o MSG_SENDER_END \o <<"h">> \o MSG_CONTENT_END }

Texts ==
    {Join(ps, <<"\n">>) : ps \in UNION {[1..n -> Pieces] : n \in 0..MaxLines}}

(* load tabulated over the input texts, and the set of its outcomes *)
LoadTable == [t \in Texts |-> load(t)]

LoadOutcomes == {LoadTable[t] : t \in Texts}

RECURSIVE TotalMessages(_)
TotalMessages(bs) ==
    IF bs = <<>> THEN 0 ELSE Len(bs[1].messages) + TotalMessages(Tail(bs))

(* ------------------------------- actions ------------------------------- *)
NoMessage == Message(<<>>, <<>>, <<>>, <<>>)

(* The record of the last call: its name, whether it returned (ok) or      *)
(* raised, and its arguments. old is self.blocks before the call.          *)
Call(name, ok) ==
    [name |-> name, ok |-> ok, date |-> <<>>, index |-> 0, msg |-> NoMessage,
     text |-> <<>>, updates |-> <<>>, filters |-> <<>>, result |-> <<>>,
     repeat |-> FALSE]

(* CustomFormatDB(): self.blocks = [] *)
Init ==
    /\ blocks = <<>>
    /\ last = Call("init", TRUE)
    /\ old = <<>>

(* db.load(text) for any input text. load clears self.blocks first, so    *)
(* its outcome is that of a new store; the text is not recorded.           *)
Load ==
    \E r \in LoadOutcomes :
        /\ blocks' = r.blocks
        /\ last' = Call("load", r.ok)
        /\ old' = blocks

AddMessage(date, time, receiver, sender, content) ==
    LET msg == Message(time, receiver, sender, content)
        r == add_message(blocks, date, msg)
    IN /\ TotalMessages(blocks) < MaxMsgs
       /\ blocks' = r.blocks
       /\ last' = [Call("add_message", r.ok) EXCEPT !.date = date, !.msg = msg]
       /\ old' = blocks

DeleteDate(date) ==
    LET r == delete_date(blocks, date)
    IN /\ blocks' = r.blocks
       /\ last' = [Call("delete_date", r.ok) EXCEPT !.date = date]
       /\ old' = blocks

DeleteMessage(date, index) ==
    LET r == delete_message(blocks, date, index)
    IN /\ blocks' = r.blocks
       /\ last' = [Call("delete_message", r.ok) EXCEPT !.date = date, !.index = index]
       /\ old' = blocks

EditMessage(date, index, updates) ==
    LET r == edit_message(blocks, date, index, updates)
    IN /\ blocks' = r.blocks
       /\ last' = [Call("edit_message", r.ok) EXCEPT
                      !.date = date, !.index = index, !.updates = updates]
       /\ old' = blocks

(* dumps raises KeyError when a message lacks one of the four keys *)
Renderable(bs) ==
    \A b \in 1..Len(bs) : \A m \in 1..Len(bs[b].messages) :
        \A f \in 1..Len(MessageFields) :
            MessageFields[f] \in DOMAIN bs[b].messages[m]

(* dumps consuming self.blocks while it renders *)
DumpsDraining ==
    /\ blocks' = <<>>
    /\ last' = [Call("dumps", Renderable(blocks)) EXCEPT
                   !.result = dumps(blocks), !.repeat = (last.name = "dumps")]
    /\ old' = blocks

(* text = db.dumps(); repeat tells that the call before was dumps too *)
Dumps ==
    /\ blocks' = blocks
    /\ last' = [Call("dumps", Renderable(blocks)) EXCEPT
                   !.result = dumps(blocks), !.repeat = (last.name = "dumps")]
    /\ old' = blocks

SearchMessages(sender, receiver, text) ==
    /\ blocks' = blocks
    /\ last' = [Call("search_messages", TRUE) EXCEPT
                   !.filters = <<sender, receiver, text>>,
                   !.result = search_messages(blocks, sender, receiver, text)]
    /\ old' = blocks

Search ==
    \E sender \in SenderFilters, receiver \in ReceiverFilters, text \in TextFilters :
        SearchMessages(sender, receiver, text)

Add == \E a \in AddInputs : AddMessage(a[1], a[2], a[3], a[4], a[5])

Next ==
    \/ Load
    \/ Add
    \/ \E date \in Dates : DeleteDate(date)
    \/ \E date \in BlockDates, index \in Indices : DeleteMessage(date, index)
    \/ \E date \in BlockDates, index \in Indices, updates \in ShortUpdates :
            EditMessage(date, index, updates)
    \/ Dumps
    \/ Search

Spec == Init /\ [][Next]_vars

(* Stores built by add_message alone *)
SpecAdd == Init /\ [][Add]_vars

(* Stores built by add_message and edited with updates of up to           *)
(* MaxUpdates items                                                        *)
Edit ==
    \E date \in BlockDates, index \in Indices, updates \in Updates :
        EditMessage(date, index, updates)

NextEdit == Add \/ Edit

SpecEdit == Init /\ [][NextEdit]_vars

(* add_message takes any non-empty strings: this date holds two line      *)
(* breaks, and between them an end marker and the start of a header        *)
LinesDate ==
    <<"d">> \o HEADER_CLOSE \o <<" ">> \o HEADER_TAIL \o <<"\r">>
            \o END_LINE \o <<"\r">> \o HEADER_PREFIX \o <<"e">>

AddLines ==
    \E a \in AddInputs :
        a[1] = D1 /\ AddMessage(LinesDate, a[2], a[3], a[4], a[5])

(* Stores built by add_message, with such a date too, and their dumps *)
NextDumps == Add \/ AddLines \/ Dumps

SpecDumps == Init /\ [][NextDumps]_vars

(* Stores built by load and add_message alone *)
NextLoadAdd == Load \/ Add

SpecLoadAdd == Init /\ [][NextLoadAdd]_vars

(* Runs in which every call returns *)
NextOk ==
    \/ Load /\ last'.ok
    \/ Add /\ last'.ok
    \/ (\E date \in Dates : DeleteDate(date)) /\ last'.ok
    \/ (\E date \in BlockDates, index \in Indices : DeleteMessage(date, index)) /\ last'.ok
    \/ (\E date \in BlockDates, index \in Indices, updates \in ShortUpdates :
            EditMessage(date, index, updates)) /\ last'.ok
    \/ Dumps /\ last'.ok
    \/ Search /\ last'.ok

SpecOk == Init /\ [][NextOk]_vars

(* Stores a text is loaded into: the new store and one add_message built   *)
PriorStores ==
    {<<>>, <<Block(D2, <<Message(T1, <<"B">>, <<"A">>, <<"h", "i">>)>>)>>}

(* load as a function of its text: the text and the store's prior content  *)
(* are drawn first, then the text is loaded, then the store's dumps is     *)
(* loaded again.                                                           *)
InitText ==
    /\ blocks \in PriorStores
    /\ last \in {[Call("text", TRUE) EXCEPT !.text = t] : t \in Texts}
    /\ old = <<>>

LoadText ==
    /\ last.name = "text"
    /\ LET r == LoadInto(blocks, last.text)
       IN /\ blocks' = r.blocks
          /\ last' = [Call("load", r.ok) EXCEPT !.text = last.text]
          /\ old' = blocks

Reload ==
    /\ last.name = "load"
    /\ last.ok
    /\ LET r == LoadInto(blocks, dumps(blocks))
       IN /\ blocks' = r.blocks
          /\ last' = [Call("reload", r.ok) EXCEPT !.text = dumps(blocks)]
          /\ old' = blocks

NextText == LoadText \/ Reload

SpecText == InitText /\ [][NextText]_vars

(* ------------------------------- claims -------------------------------- *)
Reloaded(bs) ==
    LET r == load(dumps(bs)) IN r.ok /\ r.blocks = bs

(* C1: a Store built from the empty Store by add_message calls with        *)
(* non-empty arguments is reproduced by load(dumps(store)): load succeeds  *)
(* and yields the same block sequence. (SpecAdd)                           *)
C1_AddRoundTrip == Reloaded(blocks)

(* C2: after a failed load the Store is what it was before the call or     *)
(* empty; it holds no block parsed from the failing text.                  *)
C2_FailedLoadNotPartial ==
    (last.name = "load" /\ ~ last.ok) => (blocks = old \/ blocks = <<>>)

(* C3: at most one DateBlock per distinct date in every reachable Store.   *)
C3_UniqueDates ==
    \A i, j \in 1..Len(blocks) : i # j => blocks[i].date # blocks[j].date

(* C4: in every reachable Store, after successful and failing calls alike, *)
(* every message has the four fields time, receiver, sender and content,   *)
(* each non-empty.                                                         *)
C4_FieldsNonEmpty ==
    \A b \in 1..Len(blocks) : \A m \in 1..Len(blocks[b].messages) :
        /\ DOMAIN blocks[b].messages[m] = {"time", "receiver", "sender", "content"}
        /\ \A f \in DOMAIN blocks[b].messages[m] : blocks[b].messages[m][f] # <<>>

C4_Witness ==
    /\ last.name = "edit_message"
    /\ ~ last.ok
    /\ \E k \in 1..Len(last.updates) : last.updates[k][2] = <<>>
    /\ \E b \in 1..Len(old) :
          /\ old[b].date = last.date
          /\ last.index \in 0..(Len(old[b].messages) - 1)

(* C5: in every Store reached by successful calls only, the text returned  *)
(* by dumps is accepted by load. (SpecOk)                                  *)
C5_DumpsLoadable == load(dumps(blocks)).ok

(* C6: for a text that load accepts, loading the dumps of the resulting    *)
(* Store succeeds and yields the block sequence of the first load.         *)
(* (SpecText)                                                              *)
C6_ReloadEqual ==
    last.name = "reload" => (last.ok /\ blocks = old)

C6_Witness ==
    /\ last.name = "reload"
    /\ \E b \in 1..Len(blocks) : blocks[b].date = <<>>
    /\ \E b \in 1..Len(blocks) : blocks[b].messages # <<>>

(* The shape of a stripped line, tested in the order load tests it.        *)
Kind(line) ==
    IF HEADER_RE(line) THEN "header"
    ELSE IF MESSAGE_RE(line) THEN "message"
    ELSE IF END_RE(line) THEN "end"
    ELSE "other"

Kinds(text) ==
    LET ls == StrippedLines(text) IN [i \in 1..Len(ls) |-> Kind(ls[i])]

(* Positions of a header that follows a header with no end marker between  *)
HeadersWhileOpen(ks) ==
    {j \in 1..Len(ks) :
        /\ ks[j] = "header"
        /\ \E i \in 1..(j - 1) :
              /\ ks[i] = "header"
              /\ \A k \in (i + 1)..(j - 1) : ks[k] # "end"}

EndsBefore(ks, j) == Cardinality({k \in 1..(j - 1) : ks[k] = "end"})

(* C7: a header line met while a block is open makes load fail, whatever   *)
(* came before; the Store then holds no more blocks than end markers       *)
(* preceded that header, so no second block was opened. (SpecText)         *)
C7_NestedHeaderFails ==
    last.name = "load" =>
        \A j \in HeadersWhileOpen(Kinds(last.text)) :
            /\ ~ last.ok
            /\ Len(blocks) <= EndsBefore(Kinds(last.text), j)

C7_Witness ==
    /\ last.name = "load"
    /\ ~ last.ok
    /\ HeadersWhileOpen(Kinds(last.text)) # {}
    /\ Len(blocks) >= 1

(* Zero or more groups "header, messages, end": every header is followed   *)
(* by an end with only messages between, every end and every message is    *)
(* preceded by a header with only messages between, no other line.         *)
WellFormed(ks) ==
    \A i \in 1..Len(ks) :
        /\ ks[i] # "other"
        /\ ks[i] = "header" =>
              \E j \in (i + 1)..Len(ks) :
                  ks[j] = "end" /\ \A k \in (i + 1)..(j - 1) : ks[k] = "message"
        /\ ks[i] \in {"end", "message"} =>
              \E j \in 1..(i - 1) :
                  ks[j] = "header" /\ \A k \in (j + 1)..(i - 1) : ks[k] = "message"

(* C8: load succeeds exactly when the non-blank lines form zero or more    *)
(* groups "header, zero or more messages, end marker"; so it fails on an   *)
(* end marker or a message with no open block, on a line of no shape and   *)
(* on input that ends with a block open. (SpecText)                        *)
C8_LoadAcceptsGroups ==
    last.name = "load" => (last.ok <=> WellFormed(Kinds(last.text)))

C8_Witness ==
    /\ last.name = "load"
    /\ last.ok
    /\ Len(blocks) = 2
    /\ WellFormed(Kinds(last.text))

(* C9: a successful add_message for a date the Store has appends the       *)
(* message at the end of the first block with that date and changes        *)
(* neither list_dates() nor any other block; for a date the Store lacks it *)
(* appends one block holding only the new message.                         *)
C9_AddMergesOrAppends ==
    (last.name = "add_message" /\ last.ok) =>
        LET hits == {i \in 1..Len(old) : old[i].date = last.date}
        IN IF hits # {}
           THEN LET f == CHOOSE i \in hits : \A j \in hits : i <= j
                IN /\ list_dates(blocks) = list_dates(old)
                   /\ blocks[f].messages = old[f].messages \o <<last.msg>>
                   /\ \A i \in 1..Len(old) : i # f => blocks[i] = old[i]
           ELSE /\ Len(blocks) = Len(old) + 1
                /\ SubSeq(blocks, 1, Len(old)) = old
                /\ blocks[Len(blocks)] = [date |-> last.date, messages |-> <<last.msg>>]

C9_Witness ==
    /\ last.name = "add_message"
    /\ last.ok
    /\ \E i, j \in 1..Len(old) :
          /\ i < j
          /\ old[i].date = last.date
          /\ old[j].date = last.date
          /\ old[i].messages # <<>>
          /\ Len(blocks[i].messages) = Len(old[i].messages) + 1

(* The call names no block, or an index outside the first such block *)
BadTarget(bs, date, index) ==
    LET hits == {i \in 1..Len(bs) : bs[i].date = date}
    IN \/ hits = {}
       \/ LET f == CHOOSE i \in hits : \A j \in hits : i <= j
          IN index < 0 \/ index >= Len(bs[f].messages)

(* C10: add_message with an empty argument, and delete_message or          *)
(* edit_message with an unknown date or an index that is negative or not   *)
(* below the block's message count, fail and leave the Store unchanged.    *)
C10_FailedCallUnchanged ==
    /\ (last.name = "add_message" /\ ~ last.ok) => blocks = old
    /\ (last.name = "add_message" /\
            (last.date = <<>> \/ \E f \in DOMAIN last.msg : last.msg[f] = <<>>))
          => (~ last.ok /\ blocks = old)
    /\ (last.name = "delete_message" /\ ~ last.ok) => blocks = old
    /\ (last.name \in {"delete_message", "edit_message"} /\
            BadTarget(old, last.date, last.index))
          => (~ last.ok /\ blocks = old)

C10_Witness ==
    /\ last.name = "delete_message"
    /\ ~ last.ok
    /\ last.index = -1
    /\ \E b \in 1..Len(old) : old[b].date = last.date /\ Len(old[b].messages) >= 1
    /\ blocks = old

(* A filter the caller supplied holds of the message; an omitted one       *)
(* (None) holds of every message.                                          *)
FilterHolds(msg, sender, receiver, text) ==
    /\ sender # None => msg.sender = sender
    /\ receiver # None => msg.receiver = receiver
    /\ text # None =>
          \E i \in 0..(Len(msg.content) - Len(text)) :
              SubSeq(msg.content, i + 1, i + Len(text)) = text

(* <<block, message>> positions in block-then-message order *)
RECURSIVE Positions(_, _)
Positions(bs, b) ==
    IF b > Len(bs) THEN <<>>
    ELSE [m \in 1..Len(bs[b].messages) |-> <<b, m>>] \o Positions(bs, b + 1)

(* C11: search_messages returns exactly the messages for which every       *)
(* supplied filter holds (sender and receiver by equality, text by         *)
(* containment in content; only omitted filters hold of everything), each  *)
(* with its block's date, in block-then-message order; nothing matching    *)
(* gives the empty sequence.                                               *)
C11_SearchExact ==
    last.name = "search_messages" =>
        LET ps == SelectSeq(Positions(blocks, 1),
                            LAMBDA p : FilterHolds(blocks[p[1]].messages[p[2]],
                                                   last.filters[1], last.filters[2],
                                                   last.filters[3]))
        IN /\ last.ok
           /\ Len(last.result) = Len(ps)
           /\ \A k \in 1..Len(ps) :
                 LET m == blocks[ps[k][1]].messages[ps[k][2]]
                 IN /\ last.result[k].date = blocks[ps[k][1]].date
                    /\ \A f \in DOMAIN m : last.result[k][f] = m[f]

(* C12: delete_date never fails; afterwards no block has that date, the    *)
(* blocks of other dates are all still there, unchanged and in the same    *)
(* relative order, and a date no block had leaves the Store unchanged.     *)
C12_DeleteDateRemovesAll ==
    last.name = "delete_date" =>
        LET keep == {i \in 1..Len(old) : old[i].date # last.date}
        IN /\ last.ok
           /\ \A b \in 1..Len(blocks) : blocks[b].date # last.date
           /\ Len(blocks) = Cardinality(keep)
           /\ \A i \in keep : blocks[Cardinality({j \in keep : j <= i})] = old[i]
           /\ keep = 1..Len(old) => blocks = old

C12_Witness ==
    /\ last.name = "delete_date"
    /\ \E i, j \in 1..Len(old) :
          i < j /\ old[i].date = last.date /\ old[j].date = last.date
    /\ \E b \in 1..Len(blocks) : blocks[b].messages # <<>>

(* C13: dumps is a pure read: a dumps call leaves the Store unchanged and  *)
(* does not fail, the empty Store dumps to the empty text, and a dumps     *)
(* call right after a dumps call returns the same text.                    *)
C13_DumpsPureRead ==
    [][last'.name = "dumps" =>
          /\ blocks' = blocks
          /\ last'.ok
          /\ blocks = <<>> => last'.result = <<>>
          /\ last.name = "dumps" => last'.result = last.result]_vars

C13_Witness ==
    /\ last.name = "dumps"
    /\ last.repeat
    /\ last.result # <<>>
    /\ TotalMessages(blocks) >= 1

(* C14: in every Store reached by load and add_message calls, every        *)
(* DateBlock's date is a non-empty string. (SpecLoadAdd)                   *)
C14_DatesNonEmpty ==
    \A b \in 1..Len(blocks) : blocks[b].date # <<>>

(* C15: a successful load drops the prior content and yields one block per *)
(* header, in header order; the block's date is the header's date field    *)
(* and its messages are the message lines up to the next end marker, in    *)
(* line order (none when the end marker follows at once); blank lines add  *)
(* nothing. (SpecText)                                                     *)
C15_LoadBuildsBlocks ==
    (last.name = "load" /\ last.ok) =>
        LET ls == StrippedLines(last.text)
            ks == Kinds(last.text)
            hs == {i \in 1..Len(ks) : ks[i] = "header"}
        IN /\ Len(blocks) = Cardinality(hs)
           /\ \A i \in hs :
                 LET b == Cardinality({j \in hs : j <= i})
                     ends == {j \in (i + 1)..Len(ks) : ks[j] = "end"}
                     e == CHOOSE j \in ends : \A k \in ends : j <= k
                 IN /\ \E ws \in Whitespace :
                          ls[i] = HEADER_PREFIX \o blocks[b].date \o HEADER_CLOSE
                                      \o <<ws>> \o HEADER_TAIL
                    /\ Len(blocks[b].messages) = e - i - 1
                    /\ \A k \in 1..(e - i - 1) :
                          MessageLine(blocks[b].messages[k]) = ls[i + k]

C15_Witness ==
    /\ last.name = "load"
    /\ last.ok
    /\ old # <<>>
    /\ \E b \in 1..Len(blocks) : blocks[b].messages # <<>>
    /\ Len(SplitLines(last.text)) > Len(StrippedLines(last.text))

(* C16: a successful delete_message(date, index) removes the message at    *)
(* that index of the first block with that date: the messages before it    *)
(* keep their positions, those after it move down by one, the count drops  *)
(* by one, and the other blocks and the block order are unchanged.         *)
C16_DeleteMessageShifts ==
    (last.name = "delete_message" /\ last.ok) =>
        LET hits == {i \in 1..Len(old) : old[i].date = last.date}
            f == CHOOSE i \in hits : \A j \in hits : i <= j
            was == old[f].messages
            now == blocks[f].messages
        IN /\ hits # {}
           /\ last.index \in 0..(Len(was) - 1)
           /\ list_dates(blocks) = list_dates(old)
           /\ \A i \in 1..Len(old) : i # f => blocks[i] = old[i]
           /\ Len(now) = Len(was) - 1
           /\ \A k \in 1..Len(now) :
                 now[k] = IF k <= last.index THEN was[k] ELSE was[k + 1]

C16_Witness ==
    /\ last.name = "delete_message"
    /\ last.ok
    /\ last.index = 0
    /\ Len(old) >= 2
    /\ \E b \in 1..Len(old) :
          /\ old[b].date = last.date
          /\ Len(old[b].messages) = 2
          /\ old[b].messages[1] # old[b].messages[2]
          /\ blocks[b].messages = <<old[b].messages[2]>>

(* The first item of updates that edit_message rejects, 0 when none is *)
Rejected(u, k) ==
    \/ \A f \in 1..Len(MessageFields) : MessageFields[f] # u[k][1]
    \/ u[k][2] = <<>>

FirstRejected(u) ==
    IF \E k \in 1..Len(u) : Rejected(u, k)
    THEN CHOOSE k \in 1..Len(u) :
            Rejected(u, k) /\ \A j \in 1..(k - 1) : ~Rejected(u, j)
    ELSE 0

(* C17: edit_message on an existing message applies the items of updates   *)
(* in order. It fails exactly when some item has a key outside             *)
(* time/receiver/sender/content or an empty value; then the fields named   *)
(* by the items before the first such item hold their new values and every *)
(* other field keeps its old value. When it succeeds exactly the named     *)
(* fields are overwritten. No other message of the store is touched.       *)
C17_EditAppliesInOrder ==
    LET b == FirstWithDate(old, last.date)
    IN (/\ last.name = "edit_message"
        /\ b # 0
        /\ last.index \in 0..(Len(old[IF b = 0 THEN 1 ELSE b].messages) - 1)) =>
           LET p == last.index + 1
               u == last.updates
               stop == FirstRejected(u)
               applied == IF stop = 0 THEN 1..Len(u) ELSE 1..(stop - 1)
               was == old[b].messages[p]
               now == blocks[b].messages[p]
           IN /\ last.ok <=> stop = 0
              /\ blocks = [old EXCEPT ![b].messages[p] = now]
              /\ \A f \in DOMAIN was :
                    now[f] = IF \E k \in applied : u[k][1] = f
                             THEN u[CHOOSE k \in applied : u[k][1] = f][2]
                             ELSE was[f]

C17_Witness ==
    /\ last.name = "edit_message"
    /\ ~last.ok
    /\ Len(last.updates) = 2
    /\ FirstRejected(last.updates) = 2
    /\ \E b \in 1..Len(old) :
          /\ b = FirstWithDate(old, last.date)
          /\ Len(old[b].messages) = 2
          /\ last.index = 1
          /\ blocks[b].messages[1] = old[b].messages[1]
          /\ blocks[b].messages[2].time = last.updates[1][2]
          /\ old[b].messages[2].time # last.updates[1][2]
          /\ blocks[b].messages[2].content = old[b].messages[2].content

(* C18: when load accepts the text that dumps returned for the Store,      *)
(* dumps of the loaded Store returns that same text:                       *)
(* dumps(load(dumps(S))) = dumps(S).                                       *)
C18_DumpsFixedPoint ==
    (last.name = "dumps" /\ last.ok) =>
        LET r == load(last.result)
        IN r.ok => dumps(r.blocks) = last.result

(* C19: delete_message never removes a block. After it deleted the only    *)
(* message of a block, the block is still in the Store with an empty       *)
(* message sequence, list_dates() still returns its date,                  *)
(* list_messages(date) returns an empty sequence, the block dumps to its   *)
(* header line followed directly by the end marker, and when load accepted *)
(* the dumps of the Store before the call it accepts the dumps after it.   *)
C19_EmptyBlockStays ==
    (last.name = "delete_message" /\ last.ok) =>
        LET b == FirstWithDate(old, last.date)
        IN /\ b # 0
           /\ list_dates(blocks) = list_dates(old)
           /\ Len(old[IF b = 0 THEN 1 ELSE b].messages) = 1 =>
                 /\ blocks = [old EXCEPT ![b].messages = <<>>]
                 /\ list_messages(blocks, last.date)
                       = [ok |-> TRUE, result |-> <<>>]
                 /\ BlockLines(blocks[b]) = <<HeaderLine(last.date), END_LINE>>
                 /\ load(dumps(old)).ok => load(dumps(blocks)).ok

C19_Witness ==
    /\ last.name = "delete_message"
    /\ last.ok
    /\ Len(old) = 2
    /\ \E b \in 1..Len(old) :
          /\ b = FirstWithDate(old, last.date)
          /\ Len(old[b].messages) = 1
          /\ blocks[b] = Block(last.date, <<>>)
    /\ list_dates(blocks) = <<D1, D2>>
    /\ load(dumps(old)).ok
    /\ load(dumps(blocks)).ok

====
